---- MODULE Spec2Model ----
(***************************************************************************)
(* Model of the BOT GPT backend: the text chunker (app/utils/chunking.py), *)
(* the conversation orchestrator and context assembler                     *)
(* (app/services/conversation_service.py), document ingestion              *)
(* (app/services/document_service.py) and the embedding index              *)
(* (app/services/rag_service.py).                                          *)
(*                                                                         *)
(* A text is a sequence of characters; a character is a one-character      *)
(* string, and a fixed literal of the source is a single token.            *)
(***************************************************************************)
EXTENDS Integers, Sequences, FiniteSets, TLC

\* ------------------------------------------------------------------------
\* Bounds of the model
\* ------------------------------------------------------------------------
MaxTextLen == 4
MaxChunkSize == 3
MaxUsers == 2
MaxDocuments == 2
MaxConversations == 1
MaxMessages == 4
MaxHistory == 2
MaxThreads == 2
MaxK == 2

\* ------------------------------------------------------------------------
\* Text primitives (Python str semantics)
\* ------------------------------------------------------------------------
Whitespace == {" ", "\n"}

Min(a, b) == IF a <= b THEN a ELSE b

Max(a, b) == IF a >= b THEN a ELSE b

\* all texts over the alphabet cs of length at most n
TextsUpTo(cs, n) == UNION {[1..k -> cs] : k \in 0..n}

NonSpaceIdx(s) == {i \in 1..Len(s) : s[i] \notin Whitespace}

LoIdx(S) == CHOOSE i \in S : \A j \in S : i <= j

HiIdx(S) == CHOOSE i \in S : \A j \in S : i >= j

\* str.strip(): leading and trailing whitespace removed
Strip(s) ==
    IF NonSpaceIdx(s) = {} THEN <<>>
    ELSE SubSeq(s, LoIdx(NonSpaceIdx(s)), HiIdx(NonSpaceIdx(s)))

\* s[a:b] for 0 <= a, b (Python slice, 0-based, end exclusive)
Slice(s, a, b) == SubSeq(s, a + 1, Min(b, Len(s)))

\* ------------------------------------------------------------------------
\* chunk_text (app/utils/chunking.py)
\* ------------------------------------------------------------------------
max_chunks == 1000

VARIABLES
    arg_text,      \* the text argument as passed by the caller
    chunk_size,    \* argument
    overlap,       \* argument
    text,          \* local: the cleaned text
    start,         \* local: start of the next window
    end,           \* local: end of the window last cut
    chunks,        \* local: the chunks kept so far; the result on return
    ck_pc          \* "idle" | "call" | "loop" | "done" | "ValueError"

ck_vars == <<arg_text, chunk_size, overlap, text, start, end, chunks, ck_pc>>

ChunkChars == {" ", "a"}

\* a validation that lets overlap equal chunk_size through
ParamsValidLoose(cs, ov) == cs > 0 /\ ov >= 0 /\ ov <= cs

\* the parameter validation of chunk_text
ParamsValid(cs, ov) == cs > 0 /\ ov >= 0 /\ ov < cs

\* an emptiness test that forgets whitespace-only text
IsEmptyTextOnlyLen(t) == Len(t) = 0

\* `not text or not text.strip()`
IsEmptyText(t) == Len(t) = 0 \/ Strip(t) = <<>>

\* a loop condition without the safety limit
LoopCondNoCap(t, st, ch) == st < Len(t)

\* the while condition of chunk_text
LoopCond(t, st, ch) == st < Len(t) /\ Len(ch) < max_chunks

WindowEnd(t, st, cs) == Min(st + cs, Len(t))

\* a window advance that is off by one
NextStartOffByOne(e, ov) == e - ov - 1

\* start = end - overlap
NextStart(e, ov) == e - ov

\* one iteration of the while loop: cut, trim, keep if non-empty, advance
LoopBody(t, st, ch, cs, ov) ==
    LET e == WindowEnd(t, st, cs)
        chunk == Strip(Slice(t, st, e))
    IN  [end |-> e,
         chunks |-> IF chunk # <<>> THEN Append(ch, chunk) ELSE ch,
         start |-> NextStart(e, ov)]

\* the single-chunk early return, returning the uncleaned argument
SmallTextResultRaw(raw, cleaned) == <<raw>>

\* return [text] for a text no longer than chunk_size
SmallTextResult(raw, cleaned) == <<cleaned>>

\* entry of chunk_text: validation, the empty case and the small-text case
chunk_text_call ==
    /\ ck_pc = "call"
    /\ IF ~ParamsValid(chunk_size, overlap)
       THEN /\ ck_pc' = "ValueError"
            /\ UNCHANGED <<text, start, end, chunks>>
       ELSE IF IsEmptyText(arg_text)
       THEN /\ ck_pc' = "done"
            /\ chunks' = <<>>
            /\ UNCHANGED <<text, start, end>>
       ELSE IF Len(Strip(arg_text)) <= chunk_size
       THEN /\ ck_pc' = "done"
            /\ text' = Strip(arg_text)
            /\ chunks' = SmallTextResult(arg_text, Strip(arg_text))
            /\ UNCHANGED <<start, end>>
       ELSE /\ ck_pc' = "loop"
            /\ text' = Strip(arg_text)
            /\ chunks' = <<>>
            /\ start' = 0
            /\ UNCHANGED end
    /\ UNCHANGED <<arg_text, chunk_size, overlap>>

\* one pass of `while start < len(text) and len(chunks) < max_chunks`
chunk_text_iterate ==
    /\ ck_pc = "loop"
    /\ LoopCond(text, start, chunks)
    /\ LET r == LoopBody(text, start, chunks, chunk_size, overlap)
       IN  /\ end' = r.end
           /\ chunks' = r.chunks
           /\ start' = r.start
           /\ ck_pc' = IF r.start <= 0 THEN "done" ELSE "loop"
    /\ UNCHANGED <<arg_text, chunk_size, overlap, text>>

\* the loop condition fails: fall through to the return
chunk_text_return ==
    /\ ck_pc = "loop"
    /\ ~LoopCond(text, start, chunks)
    /\ ck_pc' = "done"
    /\ UNCHANGED <<arg_text, chunk_size, overlap, text, start, end, chunks>>

ChunkNext == chunk_text_call \/ chunk_text_iterate \/ chunk_text_return

ChunkIdle ==
    /\ arg_text = <<>>
    /\ chunk_size = 1
    /\ overlap = 0
    /\ text = <<>>
    /\ start = 0
    /\ end = 0
    /\ chunks = <<>>
    /\ ck_pc = "idle"

\* a call of chunk_text with arguments drawn from the bounded input sets
InitChunk ==
    /\ arg_text \in TextsUpTo(ChunkChars, MaxTextLen)
    /\ chunk_size \in 0..MaxChunkSize
    /\ overlap \in -1..MaxChunkSize
    /\ text = <<>>
    /\ start = 0
    /\ end = 0
    /\ chunks = <<>>
    /\ ck_pc = "call"

\* the while loop of chunk_text run to its exit
RECURSIVE ChunkLoop(_, _, _, _, _)
ChunkLoop(t, st, ch, cs, ov) ==
    IF LoopCond(t, st, ch)
    THEN LET r == LoopBody(t, st, ch, cs, ov)
         IN  IF r.start <= 0 THEN r.chunks ELSE ChunkLoop(t, r.start, r.chunks, cs, ov)
    ELSE ch

\* chunk_text as a function of its arguments: [raised, chunks]
chunk_text(t, cs, ov) ==
    IF ~ParamsValid(cs, ov) THEN [raised |-> TRUE, chunks |-> <<>>]
    ELSE IF IsEmptyText(t) THEN [raised |-> FALSE, chunks |-> <<>>]
    ELSE IF Len(Strip(t)) <= cs
    THEN [raised |-> FALSE, chunks |-> SmallTextResult(t, Strip(t))]
    ELSE [raised |-> FALSE, chunks |-> ChunkLoop(Strip(t), 0, <<>>, cs, ov)]

\* ------------------------------------------------------------------------
\* Store, session, index service and request state
\* ------------------------------------------------------------------------
VARIABLES
    settings,      \* Settings: values read from the environment at start-up
    db,            \* the committed relational store
    sess,          \* the service's Session: committed rows plus flushed ones
    index_disk,    \* RAG_INDEX_DIR: document_id -> persisted index
    index_cache,   \* RAGService._index_cache: document_id -> loaded index
    pc,            \* position of the request in flight: "idle" | "llm"
    req,           \* locals of the request in flight
    llm_messages,  \* the argument of the chat_completion call in flight
    result         \* outcome of the last finished operation

svc_vars == <<settings, db, sess, index_disk, index_cache, pc, req, llm_messages,
              result>>

VARIABLES
    th,            \* callers of the RAGService singleton: position and locals
    index_partial, \* document ids whose index file is not loadable as it stands
    index_loads    \* per document: read_index calls that succeeded since clear_cache,
                   \* counted as 0, 1 or "2 or more"

rag_vars == <<th, index_partial, index_loads>>

EmptyStore ==
    [users |-> {}, documents |-> {}, document_chunks |-> {}, conversations |-> {},
     messages |-> <<>>, conversation_documents |-> <<>>]

NoRequest == [op |-> "none"]

NoResult == [op |-> "none", status |-> "none", detail |-> ""]

\* the ids a caller may pass
UserIds == 0..MaxUsers

DocumentIds == 0..MaxDocuments

ConversationIds == 0..MaxConversations

Titles == {<<>>, <<"t">>}

Modes == {"open", "rag", "chat"}

MessageTexts == {<<" ">>, <<"b", " ">>}

DocumentContents == {<<"\n">>, <<"b", " ", "a", "a">>}

Replies == {<<"r">>}

DocumentIdLists == UNION {[1..n -> DocumentIds] : n \in 0..MaxDocuments}

\* the configurations the model runs under: overlap-free chunking, and the
\* smaller the history window the larger the top-k
SettingsChoices ==
    {[MAX_HISTORY_MESSAGES |-> h, RAG_TOP_K |-> MaxHistory + 1 - h,
      CHUNK_SIZE |-> MaxChunkSize - 1, CHUNK_OVERLAP |-> 0] :
        h \in 1..MaxHistory}

\* the id SQLite gives the next row of a table: one past the largest rowid
NextId(ids) == IF ids = {} THEN 1 ELSE (CHOOSE i \in ids : \A j \in ids : i >= j) + 1

Ids(rows) == {r.id : r \in rows}

RECURSIVE RowsOf(_, _)
RowsOf(s, cid) ==
    IF s = <<>> THEN <<>>
    ELSE IF Head(s).conversation_id = cid
         THEN <<Head(s)>> \o RowsOf(Tail(s), cid)
         ELSE RowsOf(Tail(s), cid)

\* _get_conversation_history: the conversation's messages by creation time
ConversationHistory(store, cid) == RowsOf(store.messages, cid)

\* the ConversationDocument rows of a conversation
ConversationDocs(store, cid) == RowsOf(store.conversation_documents, cid)

\* db.commit(): the engine is a StaticPool, one connection that every
\* Session uses, so a commit makes durable everything flushed on that
\* connection, whichever Session flushed it
Commit(session) == session

\* db.rollback(): the connection forgets everything flushed but not committed
Rollback(committed, session) == committed

\* ------------------------------------------------------------------------
\* Embedding index (app/services/rag_service.py)
\* ------------------------------------------------------------------------
RECURSIVE Count(_, _)
Count(t, c) ==
    IF t = <<>> THEN 0 ELSE (IF Head(t) = c THEN 1 ELSE 0) + Count(Tail(t), c)

\* the embedder: a fixed map from text to a vector of fixed dimension
Embed(t) == <<Count(t, "a"), Count(t, "b")>>

\* IndexFlatL2: squared Euclidean distance
Distance(u, v) == (u[1] - v[1]) * (u[1] - v[1]) + (u[2] - v[2]) * (u[2] - v[2])

\* a filter that keeps every chunk, blank or not
FilterBlankNone(cs) == cs

\* valid_chunks = [c for c in chunks if c and c.strip()]
RECURSIVE FilterBlank(_)
FilterBlank(cs) ==
    IF cs = <<>> THEN <<>>
    ELSE IF Head(cs) # <<>> /\ Strip(Head(cs)) # <<>>
         THEN <<Head(cs)>> \o FilterBlank(Tail(cs))
         ELSE FilterBlank(Tail(cs))

\* build_index: [status, disk, cache] for an embedder that works (ok) or fails
build_index(disk, cache, document_id, cks, ok) ==
    LET valid_chunks == FilterBlank(cks)
        index == [i \in 1..Len(valid_chunks) |-> Embed(valid_chunks[i])]
    IN  IF document_id <= 0
        THEN [status |-> "ValueError", disk |-> disk, cache |-> cache]
        ELSE IF cks = <<>> \/ valid_chunks = <<>>
        THEN [status |-> "ok", disk |-> disk, cache |-> cache]
        ELSE IF ~ok
        THEN [status |-> "RAGServiceError", disk |-> disk, cache |-> cache]
        ELSE [status |-> "ok",
              disk |-> [d \in DOMAIN disk \cup {document_id} |->
                          IF d = document_id THEN index ELSE disk[d]],
              cache |-> [d \in DOMAIN cache \cup {document_id} |->
                          IF d = document_id THEN index ELSE cache[d]]]

\* index.search: the k nearest positions (0-based) with their distances,
\* nearest first; equal distances may come back in either order
Search(index, q, k) ==
    LET Cands == {[idx |-> p, dist |-> Distance(index[p + 1], q)] :
                    p \in 0..(Len(index) - 1)}
    IN  {r \in [1..k -> Cands] :
            /\ \A i, j \in 1..k : i < j => r[i].idx # r[j].idx /\ r[i].dist <= r[j].dist
            /\ \A c \in Cands : (\A i \in 1..k : r[i].idx # c.idx) => c.dist >= r[k].dist}

\* retrieve_top_k: the outcomes [status, results, cache] the call can have
retrieve_top_k(disk, cache, document_id, query, k) ==
    IF document_id <= 0 \/ query = <<>> \/ Strip(query) = <<>> \/ k <= 0
    THEN {[status |-> "ValueError", results |-> <<>>, cache |-> cache]}
    ELSE IF document_id \notin DOMAIN cache /\ document_id \notin DOMAIN disk
    THEN {[status |-> "ok", results |-> <<>>, cache |-> cache]}
    ELSE IF document_id \notin DOMAIN cache /\ document_id \in index_partial
    THEN {[status |-> "ok", results |-> <<>>, cache |-> cache]}
    ELSE LET loaded == IF document_id \in DOMAIN cache THEN cache
                       ELSE [d \in DOMAIN cache \cup {document_id} |->
                               IF d = document_id THEN disk[d] ELSE cache[d]]
             index == loaded[document_id]
             search_k == Min(k, Len(index))
         IN  {[status |-> "RAGServiceError", results |-> <<>>, cache |-> loaded]}
             \cup
             (IF search_k <= 0
              THEN {[status |-> "ok", results |-> <<>>, cache |-> loaded]}
              ELSE {[status |-> "ok", results |-> r, cache |-> loaded] :
                       r \in Search(index, Embed(Strip(query)), search_k)})

\* ------------------------------------------------------------------------
\* RAGService called from several threads (app/services/rag_service.py):
\* the singleton has no lock, so the statements of concurrent calls interleave
\* ------------------------------------------------------------------------
Threads == 1..MaxThreads

IndexDocumentIds == {0, 1}

IndexChunkLists ==
    {<<>>, << <<" ">> >>, << <<"b">>, <<"a">> >>, << <<"a">>, <<"a">> >>, << <<" ">>, <<"a">> >>}

IndexQueries == {<<" ">>, <<"a">>}

IndexKs == 0..MaxK

IdleThread ==
    [pc |-> "idle", op |-> "none", document_id |-> 0, chunks |-> <<>>, query |-> <<>>,
     k |-> 0, index |-> <<>>, results |-> <<>>, status |-> "none", path |-> "none",
     raced |-> FALSE, rival |-> <<>>, replaced |-> FALSE, embedder |-> "none"]

RagIdle ==
    /\ th = [t \in Threads |-> IdleThread]
    /\ index_partial = {}
    /\ index_loads = [d \in IndexDocumentIds |-> 0]

\* self.model.encode(valid_chunks): one vector per chunk, in order
Encode(valid_chunks) == [i \in 1..Len(valid_chunks) |-> Embed(valid_chunks[i])]

\* an install that adds the vectors to the index object already cached
CacheInstallInPlace(cache, document_id, index) ==
    [d \in DOMAIN cache \cup {document_id} |->
        IF d = document_id
        THEN (IF d \in DOMAIN cache THEN cache[d] \o index ELSE index)
        ELSE cache[d]]

\* self._index_cache[document_id] = index
CacheInstall(cache, document_id, index) ==
    [d \in DOMAIN cache \cup {document_id} |-> IF d = document_id THEN index ELSE cache[d]]

\* faiss.write_index(index, index_path) run to its end
WriteIndex(disk, document_id, index) ==
    [d \in DOMAIN disk \cup {document_id} |-> IF d = document_id THEN index ELSE disk[d]]

\* a clamp that is one short
SearchKOffByOne(k, index_size) == Min(k, index_size) - 1

\* search_k = min(k, index_size)
SearchK(k, index_size) == Min(k, index_size)

\* a missing index reported as an error
MissingIndexStatusRaises == "RAGServiceError"

\* `return []` when no index file exists
MissingIndexStatus == "ok"

\* the outcome of a failed read_index: the except clause returns []
UnreadableIndexStatus == "ok"

\* another thread is inside faiss.write_index on the file of document_id
WriterActive(t, document_id) ==
    \E u \in Threads \ {t} : th[u].pc = "write_end" /\ th[u].document_id = document_id

\* such a thread is overwriting a file that held a complete index
ReplacingWriterActive(t, document_id) ==
    \E u \in Threads \ {t} :
        th[u].pc = "write_end" /\ th[u].document_id = document_id /\ th[u].replaced

\* faiss.write_index writes the file in place; what two writers of one file
\* can leave: where the sizes agree, any position-wise choice of their vectors
FilesAfterRace(own, other) ==
    IF Len(own) = Len(other)
    THEN {f \in [1..Len(own) -> {own[i] : i \in 1..Len(own)} \cup {other[i] : i \in 1..Len(other)}] :
            \A i \in 1..Len(own) : f[i] \in {own[i], other[i]}}
    ELSE {own, other}

Ready(t) == th[t].pc \in {"idle", "done"}

Finish(t, status, results) ==
    [th EXCEPT ![t].pc = "done", ![t].status = status, ![t].results = results]

\* build_index up to the index object: validation, blank filter, encode
rag_build_index_call(t, document_id, cks, embedder_ok) ==
    /\ Ready(t)
    /\ LET call == [IdleThread EXCEPT !.op = "build_index", !.document_id = document_id,
                                      !.chunks = cks]
           valid_chunks == FilterBlank(cks)
       IN  th' = [th EXCEPT ![t] =
                IF document_id <= 0
                THEN [call EXCEPT !.pc = "done", !.status = "ValueError"]
                ELSE IF cks = <<>> \/ valid_chunks = <<>>
                THEN [call EXCEPT !.pc = "done", !.status = "ok"]
                ELSE IF ~embedder_ok
                THEN [call EXCEPT !.pc = "done", !.status = "RAGServiceError",
                                  !.embedder = "failed"]
                ELSE [call EXCEPT !.pc = "write_begin", !.index = Encode(valid_chunks),
                                  !.embedder = "ok"]]
    /\ UNCHANGED <<index_disk, index_cache, index_partial, index_loads>>

\* faiss.write_index opens the file for writing: the old content is gone
rag_write_begin(t) ==
    /\ th[t].pc = "write_begin"
    /\ LET d == th[t].document_id
           rivals == {u \in Threads \ {t} : th[u].pc = "write_end" /\ th[u].document_id = d}
       IN  /\ index_disk' = WriteIndex(index_disk, d, th[t].index)
           /\ index_partial' = index_partial \cup {d}
           /\ th' = [u \in Threads |->
                        IF u = t
                        THEN [th[u] EXCEPT !.pc = "write_end",
                                           !.replaced = d \in DOMAIN index_disk
                                                        /\ d \notin index_partial,
                                           !.raced = rivals # {},
                                           !.rival = IF rivals = {} THEN <<>>
                                                     ELSE th[CHOOSE r \in rivals : TRUE].index]
                        ELSE IF u \in rivals
                        THEN [th[u] EXCEPT !.raced = TRUE, !.rival = th[t].index]
                        ELSE th[u]]
    /\ UNCHANGED <<index_cache, index_loads>>

\* faiss.write_index returns
rag_write_end(t) ==
    /\ th[t].pc = "write_end"
    /\ LET d == th[t].document_id
       IN  IF WriterActive(t, d)
           THEN UNCHANGED <<index_disk, index_partial>>
           ELSE IF ~th[t].raced
           THEN /\ index_disk' = WriteIndex(index_disk, d, th[t].index)
                /\ index_partial' = index_partial \ {d}
           ELSE \/ UNCHANGED <<index_disk, index_partial>>
                \/ \E f \in FilesAfterRace(th[t].index, th[t].rival) :
                      /\ index_disk' = WriteIndex(index_disk, d, f)
                      /\ index_partial' = index_partial \ {d}
    /\ th' = [th EXCEPT ![t].pc = "install", ![t].raced = FALSE, ![t].rival = <<>>,
                         ![t].replaced = FALSE]
    /\ UNCHANGED <<index_cache, index_loads>>

\* faiss.write_index raises part way: the file stays as far as it was
\* written, and a writer it raced with can no longer find its whole content
rag_write_fails(t) ==
    /\ th[t].pc = "write_end"
    /\ th' = [u \in Threads |->
                IF u = t
                THEN [th[u] EXCEPT !.pc = "done", !.status = "RAGServiceError",
                                   !.raced = FALSE, !.rival = <<>>, !.replaced = FALSE]
                ELSE IF WriterActive(t, th[t].document_id) /\ th[u].pc = "write_end"
                        /\ th[u].document_id = th[t].document_id
                THEN [th[u] EXCEPT !.rival = th[u].index]
                ELSE th[u]]
    /\ UNCHANGED <<index_disk, index_cache, index_partial, index_loads>>

\* self._index_cache[document_id] = index, and build_index returns
rag_build_install(t) ==
    /\ th[t].pc = "install"
    /\ th[t].op = "build_index"
    /\ index_cache' = CacheInstall(index_cache, th[t].document_id, th[t].index)
    /\ th' = Finish(t, "ok", <<>>)
    /\ UNCHANGED <<index_disk, index_partial, index_loads>>

\* retrieve_top_k: validation and the cache lookup
rag_retrieve_top_k_call(t, document_id, query, k) ==
    /\ Ready(t)
    /\ LET call == [IdleThread EXCEPT !.op = "retrieve_top_k", !.document_id = document_id,
                                      !.query = query, !.k = k]
       IN  th' = [th EXCEPT ![t] =
                IF document_id <= 0 \/ query = <<>> \/ Strip(query) = <<>> \/ k <= 0
                THEN [call EXCEPT !.pc = "done", !.status = "ValueError"]
                ELSE IF document_id \in DOMAIN index_cache
                THEN [call EXCEPT !.pc = "search", !.path = "cached",
                                  !.index = index_cache[document_id]]
                ELSE [call EXCEPT !.pc = "load"]]
    /\ UNCHANGED <<index_disk, index_cache, index_partial, index_loads>>

\* os.path.exists and faiss.read_index
rag_retrieve_load(t) ==
    /\ th[t].pc = "load"
    /\ LET d == th[t].document_id
       IN  IF d \notin DOMAIN index_disk
           THEN /\ th' = [Finish(t, MissingIndexStatus, <<>>) EXCEPT ![t].path = "missing"]
                /\ UNCHANGED index_loads
           ELSE IF d \in index_partial
           THEN /\ th' = [Finish(t, UnreadableIndexStatus, <<>>) EXCEPT
                             ![t].path = IF ReplacingWriterActive(t, d) THEN "torn_rebuild"
                                         ELSE IF WriterActive(t, d) THEN "torn"
                                         ELSE "malformed"]
                /\ UNCHANGED index_loads
           ELSE /\ th' = [th EXCEPT ![t].pc = "install", ![t].path = "loaded",
                                    ![t].index = index_disk[d]]
                /\ index_loads' = [index_loads EXCEPT ![d] = Min(@ + 1, 2)]
    /\ UNCHANGED <<index_disk, index_cache, index_partial>>

\* self._index_cache[document_id] = index after a load
rag_retrieve_install(t) ==
    /\ th[t].pc = "install"
    /\ th[t].op = "retrieve_top_k"
    /\ index_cache' = CacheInstall(index_cache, th[t].document_id, th[t].index)
    /\ th' = [th EXCEPT ![t].pc = "search"]
    /\ UNCHANGED <<index_disk, index_partial, index_loads>>

\* encode the query, clamp k, search
rag_retrieve_search(t, embedder_ok) ==
    /\ th[t].pc = "search"
    /\ LET search_k == SearchK(th[t].k, Len(th[t].index))
       IN  IF ~embedder_ok
           THEN th' = [Finish(t, "RAGServiceError", <<>>) EXCEPT ![t].embedder = "failed"]
           ELSE IF search_k <= 0
           THEN th' = [Finish(t, "ok", <<>>) EXCEPT ![t].embedder = "ok"]
           ELSE \E r \in Search(th[t].index, Embed(Strip(th[t].query)), search_k) :
                   th' = [Finish(t, "ok", r) EXCEPT ![t].embedder = "ok"]
    /\ UNCHANGED <<index_disk, index_cache, index_partial, index_loads>>

\* RAGService.clear_cache
rag_clear_cache(t) ==
    /\ Ready(t)
    /\ index_cache' = <<>>
    /\ index_loads' = [d \in IndexDocumentIds |-> 0]
    /\ th' = [th EXCEPT ![t] = [IdleThread EXCEPT !.op = "clear_cache", !.pc = "done",
                                                  !.status = "ok"]]
    /\ UNCHANGED <<index_disk, index_partial>>

\* ------------------------------------------------------------------------
\* Context assembly (app/services/conversation_service.py)
\* ------------------------------------------------------------------------
BasePrompt == <<"You are a helpful AI assistant.">>

RagClause == <<" You have access to document context provided below.">>

ContextLabel == <<"Document Context:\n">>

Separator == <<"\n", "\n">>

\* a mode test that takes every mode for rag
IsRagModeAlways(mode) == TRUE

\* mode == "rag"
IsRagMode(mode) == mode = "rag"

\* the text of the chunk rows the results name, in result order
RECURSIVE ChunkTexts(_, _, _)
ChunkTexts(store, document_id, results) ==
    IF results = <<>> THEN <<>>
    ELSE LET rows == {c \in store.document_chunks :
                        c.document_id = document_id /\ c.chunk_index = Head(results).idx}
         IN  (IF rows = {} THEN <<>> ELSE <<(CHOOSE c \in rows : TRUE).text>>)
             \o ChunkTexts(store, document_id, Tail(results))

\* the loop over conv_docs: every way the retrieve_top_k calls can turn out;
\* a ValueError leaves the loop
RECURSIVE RagRuns(_, _, _, _, _)
RagRuns(disk, cache, docs, query, k) ==
    IF docs = <<>> THEN {<<>>}
    ELSE UNION {
        LET r == [document_id |-> Head(docs).document_id, status |-> o.status,
                  results |-> o.results, cache |-> o.cache]
        IN  IF o.status = "ValueError" THEN {<<r>>}
            ELSE {<<r>> \o rest : rest \in RagRuns(disk, o.cache, Tail(docs), query, k)} :
        o \in retrieve_top_k(disk, cache, Head(docs).document_id, query, k)}

RECURSIVE ContextParts(_, _)
ContextParts(store, run) ==
    IF run = <<>> THEN <<>>
    ELSE (IF Head(run).status = "ok"
          THEN ChunkTexts(store, Head(run).document_id, Head(run).results)
          ELSE <<>>)
         \o ContextParts(store, Tail(run))

\* "\n\n".join(parts)
RECURSIVE Join(_)
Join(parts) ==
    IF parts = <<>> THEN <<>>
    ELSE IF Len(parts) = 1 THEN Head(parts)
    ELSE Head(parts) \o Separator \o Join(Tail(parts))

\* a retrieval loop whose first failure discards the whole context
RagContextAllOrNothing(store, run) ==
    IF \E i \in 1..Len(run) : run[i].status # "ok" THEN <<>>
    ELSE Join(ContextParts(store, run))

\* _retrieve_rag_context: a RAGServiceError skips the document, any other
\* error gives the empty context
RagContext(store, run) ==
    IF \E i \in 1..Len(run) : run[i].status = "ValueError" THEN <<>>
    ELSE Join(ContextParts(store, run))

CacheAfter(cache, run) == IF run = <<>> THEN cache ELSE run[Len(run)].cache

\* a window that keeps the oldest messages
HistoryWindowOldest(history, max_history) ==
    SubSeq(history, 1, Min(max_history, Len(history)))

\* history[-MAX_HISTORY_MESSAGES:]
HistoryWindow(history, max_history) ==
    SubSeq(history, Max(1, Len(history) - max_history + 1), Len(history))

SystemPrompt(mode) == IF IsRagMode(mode) THEN BasePrompt \o RagClause ELSE BasePrompt

Entries(window) == [i \in 1..Len(window) |->
                       [role |-> window[i].role, content |-> window[i].content]]

\* an assembly that appends the document context after the history
BuildMessagesContextLate(history, user_message, mode, context, max_history) ==
    <<[role |-> "system", content |-> SystemPrompt(mode)]>>
    \o Entries(HistoryWindow(history, max_history))
    \o (IF IsRagMode(mode) /\ context # <<>>
        THEN <<[role |-> "system", content |-> ContextLabel \o context]>>
        ELSE <<>>)
    \o <<[role |-> "user", content |-> user_message]>>

\* _build_message_history, given the retrieved context and the stored history
BuildMessages(history, user_message, mode, context, max_history) ==
    <<[role |-> "system", content |-> SystemPrompt(mode)]>>
    \o (IF IsRagMode(mode) /\ context # <<>>
        THEN <<[role |-> "system", content |-> ContextLabel \o context]>>
        ELSE <<>>)
    \o Entries(HistoryWindow(history, max_history))
    \o <<[role |-> "user", content |-> user_message]>>

Calls(run) == [i \in 1..Len(run) |->
                 [document_id |-> run[i].document_id, status |-> run[i].status,
                  results |-> run[i].results]]

\* _get_llm_response up to the chat_completion call, on the flushed store
Assemble(op, store, cid, user_id, user_message, mode, document_ids) ==
    \E run \in (IF IsRagMode(mode)
                THEN RagRuns(index_disk, index_cache, ConversationDocs(store, cid),
                             user_message, settings.RAG_TOP_K)
                ELSE {<<>>}) :
        LET context == IF IsRagMode(mode) THEN RagContext(store, run) ELSE <<>>
            history == ConversationHistory(store, cid)
        IN  /\ sess' = store
            /\ index_cache' = CacheAfter(index_cache, run)
            /\ llm_messages' = BuildMessages(history, user_message, mode, context,
                                             settings.MAX_HISTORY_MESSAGES)
            /\ req' = [op |-> op, conversation_id |-> cid, user_id |-> user_id,
                       user_message |-> user_message,
                       mode |-> mode, document_ids |-> document_ids,
                       retrievals |-> Calls(run), context |-> context,
                       history |-> history]
            /\ pc' = "llm"
            /\ UNCHANGED <<settings, db, index_disk, result>>

Fail(op, status, detail) ==
    /\ sess' = Rollback(db, sess)
    /\ result' = [op |-> op, status |-> status, detail |-> detail]
    /\ UNCHANGED <<settings, db, index_disk, index_cache, pc, req, llm_messages>>

Reject(op) ==
    /\ result' = [op |-> op, status |-> "ValueError", detail |-> "invalid"]
    /\ UNCHANGED <<settings, db, sess, index_disk, index_cache, pc, req, llm_messages>>

\* a test that lets whitespace-only text through
BlankOnlyEmpty(t) == t = <<>>

\* `not s or not s.strip()`
Blank(t) == t = <<>> \/ Strip(t) = <<>>

RECURSIVE Positive(_)
Positive(ids) ==
    IF ids = <<>> THEN <<>>
    ELSE (IF Head(ids) > 0 THEN <<Head(ids)>> ELSE <<>>) \o Positive(Tail(ids))

\* ------------------------------------------------------------------------
\* Operations
\* ------------------------------------------------------------------------
\* POST /users: a plain def endpoint, run on a worker thread while the event
\* loop may be inside a conversation turn; it adds a user and commits
create_user ==
    /\ Cardinality(sess.users) < MaxUsers
    /\ LET store == [sess EXCEPT !.users = @ \cup {NextId(sess.users)}]
       IN  /\ db' = Commit(store)
           /\ sess' = store
    /\ result' = [op |-> "create_user", status |-> "ok", detail |-> ""]
    /\ UNCHANGED <<settings, index_disk, index_cache, pc, req, llm_messages>>

\* chunk rows numbered from one
ChunkRowsFromOne(id, cks) ==
    {[document_id |-> id, chunk_index |-> i, text |-> cks[i]] : i \in 1..Len(cks)}

\* for idx, chunk_content in enumerate(chunks): one DocumentChunk row each
ChunkRows(id, cks) ==
    {[document_id |-> id, chunk_index |-> i - 1, text |-> cks[i]] : i \in 1..Len(cks)}

\* an index failure that undoes the document
StoreAfterBuildFatal(committed, store, status) ==
    IF status = "RAGServiceError" THEN committed ELSE store

\* except RAGServiceError: log and go on to the commit with the flushed rows
StoreAfterBuild(committed, store, status) == store

\* DocumentService.create_document
create_document(user_id, title, content, embedder_ok) ==
    /\ pc = "idle"
    /\ Cardinality(sess.documents) < MaxDocuments
    /\ IF user_id <= 0 \/ Blank(title) \/ Blank(content)
       THEN Reject("create_document")
       ELSE IF user_id \notin sess.users
       THEN Fail("create_document", "DocumentServiceError", "integrity")
       ELSE LET id == NextId(Ids(sess.documents))
                ck == chunk_text(Strip(content), settings.CHUNK_SIZE, settings.CHUNK_OVERLAP)
                withdoc == [sess EXCEPT !.documents = @ \cup
                               {[id |-> id, user_id |-> user_id, title |-> Strip(title)]}]
                store == [withdoc EXCEPT !.document_chunks = @ \cup ChunkRows(id, ck.chunks)]
                built == build_index(index_disk, index_cache, id, ck.chunks, embedder_ok)
                kept == StoreAfterBuild(db, store, built.status)
            IN  IF ck.raised
                THEN Fail("create_document", "DocumentServiceError", "chunking")
                ELSE IF ck.chunks = <<>>
                THEN /\ db' = Commit(withdoc)
                     /\ sess' = withdoc
                     /\ result' = [op |-> "create_document", status |-> "ok", detail |-> "",
                                   document_id |-> id, content |-> content,
                                   chunk_count |-> 0, builds |-> <<>>]
                     /\ UNCHANGED <<settings, index_disk, index_cache, pc, req, llm_messages>>
                ELSE /\ db' = Commit(kept)
                     /\ sess' = kept
                     /\ index_disk' = built.disk
                     /\ index_cache' = built.cache
                     /\ result' = [op |-> "create_document", status |-> "ok", detail |-> "",
                                   document_id |-> id, content |-> content,
                                   chunk_count |-> Len(ck.chunks),
                                   builds |-> <<[document_id |-> id, chunks |-> ck.chunks,
                                                 status |-> built.status]>>]
                     /\ UNCHANGED <<settings, pc, req, llm_messages>>

\* DocumentService.delete_document: the row goes, and by the ORM cascades its
\* chunk rows and conversation associations; nothing else is touched
delete_document(document_id, user_id) ==
    /\ pc = "idle"
    /\ LET found == {d \in sess.documents : d.id = document_id /\ d.user_id = user_id}
           store == [sess EXCEPT
               !.documents = @ \ found,
               !.document_chunks = {c \in @ : c.document_id # document_id},
               !.conversation_documents =
                   SelectSeq(@, LAMBDA r : r.document_id # document_id)]
       IN  IF found = {}
           THEN /\ result' = [op |-> "delete_document", status |-> "not found", detail |-> ""]
                /\ UNCHANGED <<settings, db, sess, index_disk, index_cache, pc, req,
                               llm_messages>>
           ELSE /\ db' = Commit(store)
                /\ sess' = store
                /\ result' = [op |-> "delete_document", status |-> "ok", detail |-> ""]
                /\ UNCHANGED <<settings, index_disk, index_cache, pc, req, llm_messages>>

\* ConversationService.create_conversation up to the chat_completion call
create_conversation(user_id, title, mode, first_message, document_ids) ==
    /\ pc = "idle"
    /\ Cardinality(sess.conversations) < MaxConversations
    /\ Len(sess.messages) + 2 <= MaxMessages
    /\ IF user_id <= 0 \/ Blank(title) \/ mode \notin {"open", "rag"} \/ Blank(first_message)
       THEN Reject("create_conversation")
       ELSE IF user_id \notin sess.users
       THEN Fail("create_conversation", "ConversationServiceError", "integrity")
       ELSE LET cid == NextId(Ids(sess.conversations))
                attach == IF IsRagMode(mode) THEN Positive(document_ids) ELSE <<>>
                store == [sess EXCEPT
                    !.conversations = @ \cup {[id |-> cid, user_id |-> user_id,
                                               title |-> Strip(title), mode |-> mode]},
                    !.messages = Append(@, [conversation_id |-> cid, role |-> "user",
                                            content |-> Strip(first_message)]),
                    !.conversation_documents = @ \o
                        [i \in 1..Len(attach) |->
                            [conversation_id |-> cid, document_id |-> attach[i]]]]
            IN  IF \E i \in 1..Len(attach) : attach[i] \notin Ids(sess.documents)
                THEN Fail("create_conversation", "ConversationServiceError", "integrity")
                ELSE Assemble("create_conversation", store, cid, user_id,
                              Strip(first_message), mode, document_ids)

\* a lookup by id alone
FindConversationAnyUser(store, conversation_id, user_id) ==
    {c \in store.conversations : c.id = conversation_id}

\* query(Conversation).filter(id == conversation_id, user_id == user_id)
FindConversation(store, conversation_id, user_id) ==
    {c \in store.conversations : c.id = conversation_id /\ c.user_id = user_id}

\* ConversationService.add_message up to the chat_completion call
add_message(conversation_id, user_id, content) ==
    /\ pc = "idle"
    /\ Len(sess.messages) + 2 <= MaxMessages
    /\ IF conversation_id <= 0 \/ user_id <= 0 \/ Blank(content)
       THEN Reject("add_message")
       ELSE LET found == FindConversation(sess, conversation_id, user_id)
            IN  IF found = {}
                THEN /\ sess' = Rollback(db, sess)
                     /\ result' = [op |-> "add_message", status |-> "ConversationServiceError",
                                   detail |-> "not found",
                                   conversation_id |-> conversation_id, user_id |-> user_id]
                     /\ UNCHANGED <<settings, db, index_disk, index_cache, pc, req,
                                    llm_messages>>
                ELSE LET conversation == CHOOSE c \in found : TRUE
                         store == [sess EXCEPT !.messages =
                                     Append(@, [conversation_id |-> conversation_id,
                                                role |-> "user", content |-> content])]
                     IN  Assemble("add_message", store, conversation_id, user_id, content,
                                  conversation.mode, <<>>)

\* the reply stored under the user's role
AssistantMessageAsUser(conversation_id, reply) ==
    [conversation_id |-> conversation_id, role |-> "user", content |-> reply]

\* Message(conversation_id, role="assistant", content=assistant_response)
AssistantMessage(conversation_id, reply) ==
    [conversation_id |-> conversation_id, role |-> "assistant", content |-> reply]

\* chat_completion returns text: the assistant message is added, the turn
\* committed and the two new messages returned
chat_completion_returns(reply) ==
    /\ pc = "llm"
    /\ LET store == [sess EXCEPT !.messages =
                        Append(@, AssistantMessage(req.conversation_id, reply))]
       IN  /\ db' = Commit(store)
           /\ sess' = store
    /\ result' = [op |-> req.op, status |-> "ok", detail |-> "",
                  messages |-> <<[conversation_id |-> req.conversation_id, role |-> "user",
                                  content |-> req.user_message],
                                 AssistantMessage(req.conversation_id, reply)>>]
    /\ pc' = "idle"
    /\ req' = NoRequest
    /\ llm_messages' = <<>>
    /\ UNCHANGED <<settings, index_disk, index_cache>>

\* chat_completion raises: the except clauses roll the turn back
chat_completion_raises ==
    /\ pc = "llm"
    /\ sess' = Rollback(db, sess)
    /\ result' = [op |-> req.op, status |-> "ConversationServiceError", detail |-> "llm"]
    /\ pc' = "idle"
    /\ req' = NoRequest
    /\ llm_messages' = <<>>
    /\ UNCHANGED <<settings, db, index_disk, index_cache>>

SvcIdle ==
    /\ db = EmptyStore
    /\ sess = EmptyStore
    /\ index_disk = <<>>
    /\ index_cache = <<>>
    /\ pc = "idle"
    /\ req = NoRequest
    /\ llm_messages = <<>>
    /\ result = NoResult

Init ==
    /\ settings \in SettingsChoices
    /\ SvcIdle
    /\ ChunkIdle
    /\ RagIdle

\* _build_message_history on its own: the call's inputs are in req
build_message_history ==
    /\ pc = "assemble"
    /\ llm_messages' = BuildMessages(req.history, req.user_message, req.mode, req.context,
                                     settings.MAX_HISTORY_MESSAGES)
    /\ pc' = "llm"
    /\ UNCHANGED <<settings, db, sess, index_disk, index_cache, req, result>>

vars == <<ck_vars, svc_vars, rag_vars>>

Next ==
    \/ create_user /\ UNCHANGED <<ck_vars, rag_vars>>
    \/ \E u \in UserIds, t \in Titles, c \in DocumentContents, ok \in BOOLEAN :
          create_document(u, t, c, ok) /\ UNCHANGED <<ck_vars, rag_vars>>
    \/ \E d \in DocumentIds, u \in UserIds :
          delete_document(d, u) /\ UNCHANGED <<ck_vars, rag_vars>>
    \/ \E u \in UserIds, t \in Titles, m \in Modes, f \in MessageTexts,
          ds \in DocumentIdLists : create_conversation(u, t, m, f, ds) /\ UNCHANGED <<ck_vars, rag_vars>>
    \/ \E c \in ConversationIds, u \in UserIds, m \in MessageTexts :
          add_message(c, u, m) /\ UNCHANGED <<ck_vars, rag_vars>>
    \/ \E r \in Replies : chat_completion_returns(r) /\ UNCHANGED <<ck_vars, rag_vars>>
    \/ chat_completion_raises /\ UNCHANGED <<ck_vars, rag_vars>>

Spec == Init /\ [][Next]_vars

\* a call of chunk_text on its own
InitChunkOnly ==
    /\ InitChunk
    /\ settings = CHOOSE s \in SettingsChoices : TRUE
    /\ SvcIdle
    /\ RagIdle

ChunkOnlyNext ==
    \/ chunk_text_call /\ UNCHANGED <<svc_vars, rag_vars>>
    \/ chunk_text_iterate /\ UNCHANGED <<svc_vars, rag_vars>>
    \/ chunk_text_return /\ UNCHANGED <<svc_vars, rag_vars>>

SpecChunk == InitChunkOnly /\ [][ChunkOnlyNext]_vars

SpecChunkFair == InitChunkOnly /\ [][ChunkOnlyNext]_vars /\ WF_vars(ChunkOnlyNext)

\* a call of _build_message_history on its own, over stored histories the
\* services can have written, contexts retrieval can return and any setting
StoredMessages ==
    {[conversation_id |-> 1, role |-> r, content |-> c] :
        r \in {"user", "assistant"}, c \in {<<"a">>, <<"r">>}}

Histories == UNION {[1..n -> StoredMessages] : n \in 0..(MaxHistory + 1)}

Contexts == {<<>>, <<"a", "a">>, <<"b", "\n", "\n", "a", "a">>}

InitAssemble ==
    /\ settings \in SettingsChoices
    /\ db = EmptyStore
    /\ sess = EmptyStore
    /\ index_disk = <<>>
    /\ index_cache = <<>>
    /\ pc = "assemble"
    /\ req \in [op : {"assemble"}, conversation_id : {1}, user_id : {1}, user_message : {<<"a">>, <<"b", " ">>},
                mode : {"open", "rag"}, document_ids : {<<>>}, retrievals : {<<>>},
                context : Contexts, history : Histories]
    /\ llm_messages = <<>>
    /\ result = NoResult
    /\ ChunkIdle
    /\ RagIdle

AssembleNext == build_message_history /\ UNCHANGED <<ck_vars, rag_vars>>

SpecAssemble == InitAssemble /\ [][AssembleNext]_vars

\* calls of the RAGService methods from MaxThreads threads of one process
rest_vars == <<ck_vars, settings, db, sess, pc, req, llm_messages, result>>

InitIndex ==
    /\ settings = CHOOSE s \in SettingsChoices : TRUE
    /\ SvcIdle
    /\ ChunkIdle
    /\ RagIdle

IndexNext ==
    \/ \E t \in Threads, d \in IndexDocumentIds, cks \in IndexChunkLists, ok \in BOOLEAN :
          rag_build_index_call(t, d, cks, ok) /\ UNCHANGED rest_vars
    \/ \E t \in Threads : rag_write_begin(t) /\ UNCHANGED rest_vars
    \/ \E t \in Threads : rag_write_end(t) /\ UNCHANGED rest_vars
    \/ \E t \in Threads : rag_write_fails(t) /\ UNCHANGED rest_vars
    \/ \E t \in Threads : rag_build_install(t) /\ UNCHANGED rest_vars
    \/ \E t \in Threads, d \in IndexDocumentIds, q \in IndexQueries, k \in IndexKs :
          rag_retrieve_top_k_call(t, d, q, k) /\ UNCHANGED rest_vars
    \/ \E t \in Threads : rag_retrieve_load(t) /\ UNCHANGED rest_vars
    \/ \E t \in Threads : rag_retrieve_install(t) /\ UNCHANGED rest_vars
    \/ \E t \in Threads, ok \in BOOLEAN : rag_retrieve_search(t, ok) /\ UNCHANGED rest_vars
    \/ \E t \in Threads : rag_clear_cache(t) /\ UNCHANGED rest_vars

SpecIndex == InitIndex /\ [][IndexNext]_vars

\* document ingestion on its own: users and documents come and go, with
\* contents of one chunk and of two
IngestContents == {<<"a">>, <<"b", " ", "a", "a">>}

IngestNext ==
    \/ create_user /\ UNCHANGED <<ck_vars, rag_vars>>
    \/ \E u \in UserIds, t \in Titles, c \in IngestContents, ok \in BOOLEAN :
          create_document(u, t, c, ok) /\ UNCHANGED <<ck_vars, rag_vars>>
    \/ \E d \in DocumentIds, u \in UserIds :
          delete_document(d, u) /\ UNCHANGED <<ck_vars, rag_vars>>

SpecIngest == Init /\ [][IngestNext]_vars

\* ------------------------------------------------------------------------
\* Properties of chunk_text
\* ------------------------------------------------------------------------
IsBlank(s) == \A i \in 1..Len(s) : s[i] \in Whitespace

Returned == ck_pc = "done"

\* the number of windows needed to cover n characters
WindowsNeeded(n, cs, ov) ==
    CHOOSE k \in 1..n : k * (cs - ov) >= n - ov /\ (k - 1) * (cs - ov) < n - ov

\* C6: for valid parameters every call of chunk_text returns, and at no
\* point does it hold more than 1000 chunks.
C6_TerminatesWithinCap ==
    /\ (ParamsValid(chunk_size, overlap) => <>Returned)
    /\ [](Len(chunks) <= max_chunks)

C6_Witness == Returned /\ Len(chunks) = max_chunks

\* C7: once a window that ends at the end of the text has been cut, no
\* further window is emitted.
C7_LastWindowEndsText ==
    [][(ck_pc = "loop" /\ Len(chunks) > 0 /\ end = Len(text)) => chunks' = chunks]_vars

\* C7 (count): the call returns ceil((len - overlap) / (chunk_size - overlap))
\* chunks when no window is blank.
C7_WindowCount ==
    (Returned /\ ParamsValid(chunk_size, overlap) /\ Len(text) > chunk_size
        /\ \A i \in 1..Len(text) : text[i] \notin Whitespace)
    => Len(chunks) = WindowsNeeded(Len(text), chunk_size, overlap)

\* C8: each pass of the loop cuts the window [start, end) and leaves the next
\* window's start at end - overlap, which lies inside the window just cut
\* (within its trailing `overlap` characters) and never before its start.
C8_WindowAdvance ==
    [][(ck_pc = "loop" /\ LoopCond(text, start, chunks))
        => /\ end' = Min(start + chunk_size, Len(text))
           /\ start' = end' - overlap
           /\ start' >= start
           /\ start' <= end'
           /\ start' >= end' - overlap]_vars

C8_Witness ==
    /\ ck_pc = "loop"
    /\ overlap > 0
    /\ Len(chunks) >= 2
    /\ start = end - overlap
    /\ end < Len(text)

\* C9: for valid parameters a text whose trimmed length is between 1 and
\* chunk_size comes back as exactly one chunk, the trimmed text.
C9_SmallTextOneChunk ==
    (ck_pc # "call" /\ ParamsValid(chunk_size, overlap)
        /\ ~IsBlank(arg_text) /\ Len(Strip(arg_text)) <= chunk_size)
    => (Returned /\ chunks = <<Strip(arg_text)>>)

C9_Witness ==
    /\ Returned
    /\ ParamsValid(chunk_size, overlap)
    /\ ~IsBlank(arg_text)
    /\ arg_text # Strip(arg_text)
    /\ Len(Strip(arg_text)) = chunk_size
    /\ chunks = <<Strip(arg_text)>>

\* C10: for valid parameters an empty or whitespace-only text returns the
\* empty sequence and raises nothing.
C10_BlankTextNoChunks ==
    (ck_pc # "call" /\ ParamsValid(chunk_size, overlap) /\ IsBlank(arg_text))
    => (Returned /\ chunks = <<>>)

C10_Witness ==
    /\ Returned
    /\ ParamsValid(chunk_size, overlap)
    /\ Len(arg_text) > 0
    /\ IsBlank(arg_text)
    /\ chunks = <<>>

\* C11: a call with chunk_size <= 0, overlap < 0 or overlap >= chunk_size
\* ends in ValueError whatever the text, the empty text included, and with
\* no chunk produced; no other call ends in ValueError.
C11_InvalidParamsRaise ==
    ck_pc \notin {"idle", "call"} =>
        /\ (chunk_size <= 0 \/ overlap < 0 \/ overlap >= chunk_size) <=> ck_pc = "ValueError"
        /\ ck_pc = "ValueError" => chunks = <<>>

C11_Witness ==
    /\ ck_pc = "ValueError"
    /\ arg_text = <<>>
    /\ chunk_size > 0
    /\ overlap = chunk_size

\* ------------------------------------------------------------------------
\* Properties of the conversation turn and of context assembly
\* ------------------------------------------------------------------------
\* what a reader of a conversation's history is given: committed rows
ReaderView(cid) == ConversationHistory(db, cid)

\* every user message is directly followed by its turn's assistant reply
WholeTurns(h) ==
    /\ Len(h) % 2 = 0
    /\ \A i \in 1..Len(h) : h[i].role = (IF i % 2 = 1 THEN "user" ELSE "assistant")

NoPartialTurnVisible ==
    /\ \A cid \in 1..(MaxConversations + 1) : WholeTurns(ReaderView(cid))
    /\ \A c \in db.conversations : ReaderView(c.id) # <<>>
    /\ \A i \in 1..Len(db.conversation_documents) :
          db.conversation_documents[i].conversation_id \in Ids(db.conversations)

FailedTurnLeavesNothing ==
    (pc = "llm" /\ pc' = "idle" /\ result'.status # "ok")
    => /\ db' = db
       /\ sess' = db
       /\ Len(ConversationHistory(sess', req.conversation_id))
             = Len(ConversationHistory(sess, req.conversation_id)) - 1
       /\ req.op = "create_conversation"
             => /\ req.conversation_id \notin Ids(sess'.conversations)
                /\ ConversationDocs(sess', req.conversation_id) = <<>>

\* C1: a reader of conversation history never sees a user message without
\* its turn's assistant reply, and when the completion engine fails the
\* turn's user message, and for create_conversation the new conversation and
\* its document associations, are gone from the session and the store.
C1_TurnRolledBackAsUnit == []NoPartialTurnVisible /\ [][FailedTurnLeavesNothing]_vars

IsDocumentContext(e) ==
    e.role = "system" /\ e.content # <<>> /\ e.content[1] = ContextLabel[1]

DocumentContextCount(m) == Cardinality({i \in 1..Len(m) : IsDocumentContext(m[i])})

\* C2: an assembled list is one base system entry, then (rag mode with a
\* non-empty context only) one document-context entry, then the history
\* window, then one user entry with the new message; nothing of role
\* system comes after the first history entry.
C2_ContextOrder ==
    pc = "llm" =>
        LET m == llm_messages
            n == Len(m)
            withContext == req.mode = "rag" /\ req.context # <<>>
            p == IF withContext THEN 2 ELSE 1
        IN  /\ n >= p + 1
            /\ m[1].role = "system"
            /\ m[1].content[1] = BasePrompt[1]
            /\ ~IsDocumentContext(m[1])
            /\ DocumentContextCount(m) = (IF withContext THEN 1 ELSE 0)
            /\ withContext => m[2] = [role |-> "system", content |-> ContextLabel \o req.context]
            /\ \A i \in (p + 1)..n : m[i].role # "system"
            /\ \A i \in (p + 1)..(n - 1) :
                  \E j \in 1..Len(req.history) :
                      m[i] = [role |-> req.history[j].role, content |-> req.history[j].content]
            /\ m[n] = [role |-> "user", content |-> req.user_message]

C2_Witness ==
    /\ pc = "llm"
    /\ req.mode = "rag"
    /\ req.context # <<>>
    /\ Len(req.history) >= 2
    /\ Len(llm_messages) >= 4

\* C3: the entries before the final one end with exactly the trailing
\* min(len(history), max_history) stored messages, oldest first, role and
\* content unchanged, with only system entries before them, and the new
\* message is the last entry.
C3_TrailingHistoryWindow ==
    pc = "llm" =>
        LET m == llm_messages
            n == Len(m)
            h == req.history
            w == Min(Len(h), settings.MAX_HISTORY_MESSAGES)
        IN  /\ n >= w + 2
            /\ \A i \in 1..w :
                  m[n - 1 - w + i] = [role |-> h[Len(h) - w + i].role,
                                      content |-> h[Len(h) - w + i].content]
            /\ \A i \in 1..(n - 1 - w) : m[i].role = "system"
            /\ m[n] = [role |-> "user", content |-> req.user_message]

C3_Witness ==
    /\ pc = "llm"
    /\ req.mode = "rag"
    /\ Len(req.history) > settings.MAX_HISTORY_MESSAGES
    /\ settings.MAX_HISTORY_MESSAGES >= 2
    /\ req.history[1] # req.history[Len(req.history)]
    /\ llm_messages[Len(llm_messages) - 1].content = req.history[Len(req.history)].content

\* C4: assembly for an open-mode conversation makes no retrieve_top_k call
\* and yields no document-context entry.
C4_OpenModeNoRetrieval ==
    (pc = "llm" /\ req.mode = "open")
    => /\ req.retrievals = <<>>
       /\ req.context = <<>>
       /\ DocumentContextCount(llm_messages) = 0
       /\ ConversationDocs(sess, req.conversation_id) = <<>>

C4_Witness ==
    /\ pc = "llm"
    /\ req.mode = "open"
    /\ \E i \in 1..Len(req.document_ids) :
          /\ req.document_ids[i] \in DOMAIN index_disk
          /\ req.document_ids[i] \in DOMAIN index_cache
    /\ DocumentContextCount(llm_messages) = 0

\* t occurs in s as a contiguous part
Contains(s, t) ==
    \E k \in 0..(Len(s) - Len(t)) : SubSeq(s, k + 1, k + Len(t)) = t

RetrievedTexts(call) ==
    {c.text : c \in {x \in sess.document_chunks :
                        /\ x.document_id = call.document_id
                        /\ \E j \in 1..Len(call.results) :
                              call.results[j].idx = x.chunk_index}}

\* C5: in rag assembly every associated document is queried even when the
\* retrieval for another one failed, and the text of every chunk a
\* successful retrieval returned is in the document-context entry.
C5_RetrievalFailureIsolated ==
    (pc = "llm" /\ req.mode = "rag" /\ req.op # "assemble")
    => /\ Len(req.retrievals) = Len(ConversationDocs(sess, req.conversation_id))
       /\ \A i \in 1..Len(req.retrievals) :
             /\ req.retrievals[i].document_id
                   = ConversationDocs(sess, req.conversation_id)[i].document_id
             /\ req.retrievals[i].status = "ok" =>
                   \A t \in RetrievedTexts(req.retrievals[i]) :
                       /\ Contains(req.context, t)
                       /\ \E e \in 1..Len(llm_messages) :
                             /\ IsDocumentContext(llm_messages[e])
                             /\ Contains(llm_messages[e].content, t)

C5_Witness ==
    /\ pc = "llm"
    /\ req.mode = "rag"
    /\ \E i, j \in 1..Len(req.retrievals) :
          /\ req.retrievals[i].status = "RAGServiceError"
          /\ req.retrievals[j].status = "ok"
          /\ req.retrievals[i].document_id # req.retrievals[j].document_id
          /\ RetrievedTexts(req.retrievals[j]) # {}
    /\ DocumentContextCount(llm_messages) = 1

\* ------------------------------------------------------------------------
\* Properties of the index service
\* ------------------------------------------------------------------------
\* no call of a RAGService method is in progress
Quiescent == \A t \in Threads : Ready(t)

\* d's index file is complete, so read_index would load it
Loadable(d) == d \in DOMAIN index_disk /\ d \notin index_partial

\* C12: whenever no call is in progress, every Index Cache entry whose
\* document has a loadable index file equals the index in that file. (The
\* claim asks this of every state and of unreadable files too; this is the
\* least it asks for.)
C12_CacheMatchesStorage ==
    Quiescent => \A d \in DOMAIN index_cache : Loadable(d) => index_cache[d] = index_disk[d]

\* both threads have returned from a successful build_index of document d
BothBuilt(d) ==
    \A t \in Threads :
        /\ th[t].pc = "done"
        /\ th[t].op = "build_index"
        /\ th[t].status = "ok"
        /\ th[t].document_id = d
        /\ th[t].index # <<>>

\* C13: once the build_index calls of all threads for one document have
\* returned successfully, the cache entry of that document is the whole
\* index of one of those builds.
C13_CacheHoldsOneBuild ==
    \A d \in IndexDocumentIds :
        BothBuilt(d) =>
            /\ d \in DOMAIN index_cache
            /\ \E t \in Threads : index_cache[d] = th[t].index

\* the builds overlapped: one wrote the file last, the other the cache last
C13_Witness ==
    /\ BothBuilt(1)
    /\ th[1].index # th[2].index
    /\ Loadable(1)
    /\ index_cache[1] # index_disk[1]

\* C14: a retrieve_top_k that runs while build_index replaces the complete
\* index file of the same document never reads that file half written.
\* (The claim rules out every read of a half-written file; the read that
\* loses an index that was there is the least it rules out.)
C14_NoTornRead == \A t \in Threads : th[t].path # "torn_rebuild"

\* C15: between two clear_cache calls the index file of a document is
\* loaded by read_index at most once.
C15_LoadedAtMostOnce == \A d \in IndexDocumentIds : index_loads[d] <= 1

\* a document row leaves the store only through delete_document
Deleted(d) == d \in Ids(db.documents) /\ d \notin Ids(db'.documents)

\* C16: when delete_document has removed document d, no index of d is left
\* in the index directory or in the Index Cache, and a retrieve_top_k for d
\* returns nothing.
C16_DeleteRemovesIndex ==
    [][\A d \in DocumentIds :
          Deleted(d) =>
              /\ d \notin DOMAIN index_disk'
              /\ d \notin DOMAIN index_cache'
              /\ \A o \in retrieve_top_k(index_disk', index_cache', d, <<"a">>, 1) :
                    o.results = <<>>]_vars

\* thread t has returned from a retrieve_top_k call that passed validation
Retrieved(t) ==
    th[t].pc = "done" /\ th[t].op = "retrieve_top_k" /\ th[t].status # "ValueError"

\* C17: a retrieve_top_k that found the index file unreadable while nobody
\* was writing it ends in RAGServiceError, so does one whose embedder call
\* failed, and one that found no index file ends without error and with an
\* empty result.
C17_FailureModesDistinguished ==
    \A t \in Threads :
        Retrieved(t) =>
            /\ th[t].path = "malformed" => th[t].status = "RAGServiceError"
            /\ th[t].embedder = "failed" => th[t].status = "RAGServiceError"
            /\ th[t].path = "missing" => th[t].status = "ok" /\ th[t].results = <<>>

NeverBuiltReturnsEmpty ==
    \A t \in Threads :
        (Retrieved(t) /\ th[t].document_id \notin DOMAIN index_disk)
        => /\ th[t].status = "ok"
           /\ th[t].results = <<>>
           /\ th[t].document_id \notin DOMAIN index_cache

\* no step of a retrieve_top_k for a document without index file touches the cache
NeverBuiltLeavesCache ==
    \A t \in Threads :
        (/\ th'[t] # th[t]
         /\ th'[t].op = "retrieve_top_k"
         /\ th'[t].document_id \notin DOMAIN index_disk')
        => index_cache' = index_cache

\* C18: a retrieve_top_k with valid arguments for a document that has no
\* index file, because build_index was never called for it or was a no-op,
\* returns the empty sequence without raising and leaves the Index Cache as
\* it was.
C18_NeverBuiltIsEmpty == []NeverBuiltReturnsEmpty /\ [][NeverBuiltLeavesCache]_vars

C18_Witness ==
    /\ Retrieved(1)
    /\ th[1].document_id = 1
    /\ th[1].path = "missing"
    /\ th[2].pc = "done"
    /\ th[2].op = "build_index"
    /\ th[2].document_id = 1
    /\ th[2].status = "ok"
    /\ th[2].index = <<>>
    /\ 1 \notin DOMAIN index_disk

\* an index file without vectors: build_index never writes one, but one can
\* be found in the index directory
EmptyIndexOutcomes(k) == retrieve_top_k(<< <<>> >>, <<>>, 1, <<"a">>, k)

\* C19: a retrieve_top_k that has an index of n vectors to search and a
\* working embedder ends without error with exactly min(k, n) results; on
\* an index without vectors every k > 0 gives the empty sequence.
C19_ClampsK ==
    /\ \A t \in Threads :
          (Retrieved(t) /\ th[t].path \in {"cached", "loaded"} /\ th[t].embedder = "ok")
          => /\ th[t].status = "ok"
             /\ Len(th[t].results) =
                   (IF th[t].k <= Len(th[t].index) THEN th[t].k ELSE Len(th[t].index))
    /\ \A k \in 1..MaxK :
          /\ \E o \in EmptyIndexOutcomes(k) : o.status = "ok"
          /\ \A o \in EmptyIndexOutcomes(k) : o.status = "ok" => o.results = <<>>

C19_Witness ==
    /\ Retrieved(1)
    /\ th[1].status = "ok"
    /\ Len(th[1].index) >= 1
    /\ th[1].k > Len(th[1].index)
    /\ Len(th[1].results) = Len(th[1].index)

\* thread u has returned from the build_index call that produced the index
\* thread t searched
BuiltFor(u, t) ==
    /\ th[u].pc = "done"
    /\ th[u].op = "build_index"
    /\ th[u].status = "ok"
    /\ th[u].document_id = th[t].document_id
    /\ th[u].index # <<>>
    /\ th[u].index = th[t].index

\* chunk i is the only chunk of the list with its text
UniqueText(cks, i) == \A j \in 1..Len(cks) : cks[j] = cks[i] => j = i

\* C20: the pairs retrieve_top_k returns from an index built by
\* build_index(d, chunks) are in non-decreasing distance order, and when the
\* query is the text of chunk i (and of no other chunk) the first pair is
\* chunk_index i, at the least distance of the whole index.
C20_NearestFirst ==
    \A t, u \in Threads :
        (Retrieved(t) /\ th[t].status = "ok" /\ th[t].results # <<>> /\ BuiltFor(u, t))
        => LET res == th[t].results
               q == Embed(Strip(th[t].query))
           IN  /\ \A i, j \in 1..Len(res) : i < j => res[i].dist <= res[j].dist
               /\ \A i \in 1..Len(th[u].chunks) :
                     (th[u].chunks[i] = th[t].query /\ UniqueText(th[u].chunks, i))
                     => /\ res[1].idx = i - 1
                        /\ \A p \in 1..Len(th[t].index) :
                              res[1].dist <= Distance(th[t].index[p], q)

\* the chunk lists build_index treats as empty
BlankChunkLists == {cks \in IndexChunkLists : \A i \in 1..Len(cks) : IsBlank(cks[i])}

\* a thread enters build_index for a valid document with no non-blank chunk
BlankBuildCall(t) ==
    /\ Ready(t)
    /\ th'[t] # th[t]
    /\ th'[t].op = "build_index"
    /\ th'[t].document_id > 0
    /\ th'[t].chunks \in BlankChunkLists

\* the call returns at once without raising, the embedder was not invoked,
\* and neither the index files nor the cache changed
BlankBuildIsNoOp ==
    \A t \in Threads :
        BlankBuildCall(t)
        => /\ th'[t].pc = "done"
           /\ th'[t].status = "ok"
           /\ th'[t].embedder = "none"
           /\ th'[t].index = <<>>
           /\ UNCHANGED <<index_disk, index_cache, index_partial>>

\* for a document without an index, the build leaves none and a retrieve
\* after it returns empty, whether or not the embedder works
BlankBuildLeavesNoIndex ==
    \A d \in IndexDocumentIds, cks \in BlankChunkLists, ok \in BOOLEAN :
        (d > 0 /\ d \notin DOMAIN index_disk /\ d \notin DOMAIN index_cache)
        => LET built == build_index(index_disk, index_cache, d, cks, ok)
           IN  /\ built.status = "ok"
               /\ d \notin DOMAIN built.disk
               /\ d \notin DOMAIN built.cache
               /\ \A q \in IndexQueries, k \in IndexKs :
                     (~Blank(q) /\ k > 0)
                     => \A o \in retrieve_top_k(built.disk, built.cache, d, q, k) :
                           o.status = "ok" /\ o.results = <<>>

DocumentBuilt == result.op = "create_document" /\ "builds" \in DOMAIN result

\* the committed chunk rows of a document
CommittedChunks(document_id) == {c \in db.document_chunks : c.document_id = document_id}

\* C22: when build_index raises its index error during create_document, the
\* call still returns normally with the chunk count, and the document row and
\* every one of its chunk rows are committed.
C22_IndexFailureNonFatal ==
    (DocumentBuilt /\ result.builds # <<>> /\ result.builds[1].status = "RAGServiceError")
    => LET cks == result.builds[1].chunks
       IN  /\ result.status = "ok"
           /\ result.chunk_count = Len(cks)
           /\ Len(cks) >= 1
           /\ \E d \in db.documents : d.id = result.document_id
           /\ Cardinality(CommittedChunks(result.document_id)) = Len(cks)
           /\ \A i \in 1..Len(cks) :
                 \E c \in CommittedChunks(result.document_id) : c.text = cks[i]

\* a create_document whose index build failed has returned
C22_Witness ==
    /\ DocumentBuilt
    /\ result.builds # <<>>
    /\ result.builds[1].status = "RAGServiceError"
    /\ result.document_id \notin DOMAIN index_disk

\* the embedder failed in a retrieve_top_k call of the turn in flight
EmbedderFailedInTurn ==
    /\ pc = "llm"
    /\ req.op \in {"create_conversation", "add_message"}
    /\ \E i \in 1..Len(req.retrievals) : req.retrievals[i].status = "RAGServiceError"

\* C23: a turn in which the embedder failed while embedding the new message
\* ends in an error for the caller and persists no message of the turn: the
\* conversation's committed messages are those from before the turn.
C23_EmbedderFailureAbortsTurn ==
    [][(EmbedderFailedInTurn /\ pc' = "idle")
       => /\ result'.status # "ok"
          /\ ConversationHistory(db', req.conversation_id)
                = SubSeq(req.history, 1, Len(req.history) - 1)]_vars

\* the step in which a turn's completion call returns and the turn commits
TurnCommits == pc = "llm" /\ pc' = "idle" /\ result'.status = "ok"

\* C24: a successful create_conversation or add_message persists exactly two
\* new messages for the conversation, the user message and then an assistant
\* message holding the completion engine's reply, returns those two in that
\* order, and makes one completion call: the call's argument is fixed before
\* the call and the turn ends when it returns.
C24_TurnAddsTwoMessages ==
    [][/\ TurnCommits
          => LET before == SubSeq(req.history, 1, Len(req.history) - 1)
                 after == ConversationHistory(db', req.conversation_id)
                 n == Len(before)
             IN  /\ Len(after) = n + 2
                 /\ SubSeq(after, 1, n) = before
                 /\ after[n + 1] = [conversation_id |-> req.conversation_id,
                                    role |-> "user", content |-> req.user_message]
                 /\ after[n + 2].role = "assistant"
                 /\ after[n + 2].content \in Replies
                 /\ result'.messages = <<after[n + 1], after[n + 2]>>
                 /\ \A c \in ConversationIds \ {req.conversation_id} :
                       ConversationHistory(db', c) = ConversationHistory(db, c)
       /\ pc = "llm" => (pc' = "idle" \/ llm_messages' = llm_messages)
       /\ pc' = "llm" => llm_messages' # <<>>]_vars

\* a second turn of a conversation has committed
C24_Witness ==
    /\ pc = "idle"
    /\ result.op = "add_message"
    /\ result.status = "ok"
    /\ Len(db.messages) = 4

\* the step of an add_message call that found no conversation
AddMessageRefused ==
    /\ pc = "idle"
    /\ pc' = "idle"
    /\ result'.op = "add_message"
    /\ result'.detail = "not found"

\* the step of an add_message call that went on to the completion call
AddMessageAccepted == pc = "idle" /\ pc' = "llm" /\ req'.op = "add_message"

\* C25: add_message on a conversation that does not exist or belongs to another
\* user fails with ConversationServiceError, makes no completion call and
\* persists no message; only the owner's call reaches the completion engine.
C25_ForeignConversationRefused ==
    [][/\ AddMessageRefused
          => /\ result'.status = "ConversationServiceError"
             /\ ~\E c \in db.conversations :
                   c.id = result'.conversation_id /\ c.user_id = result'.user_id
             /\ db' = db
             /\ sess' = db
             /\ llm_messages' = <<>>
       /\ AddMessageAccepted
          => \E c \in db.conversations :
                c.id = req'.conversation_id /\ c.user_id = req'.user_id]_vars

\* add_message by a user who does not own the conversation named was refused
C25_Witness ==
    /\ pc = "idle"
    /\ result.op = "add_message"
    /\ result.status = "ConversationServiceError"
    /\ \E c \in db.conversations : c.id = result.conversation_id /\ c.user_id # result.user_id
    /\ db.messages # <<>>

TurnOps == {"create_conversation", "add_message"}

\* the step of a create_conversation or add_message call that raised ValueError
TurnRejected ==
    /\ pc = "idle"
    /\ pc' = "idle"
    /\ result'.op \in TurnOps
    /\ result'.status = "ValueError"

\* the step of such a call that went on to the completion call
TurnAccepted == pc = "idle" /\ pc' = "llm" /\ req'.op \in TurnOps

\* C26: create_conversation and add_message with a non-positive user or
\* conversation id, a blank title, a blank message or a mode other than
\* open/rag raise ValueError at once: no completion call is made and store,
\* session and indexes are as before; a call that reaches the completion engine
\* has none of these defects.
C26_InvalidInputRejected ==
    [][/\ TurnRejected
          => /\ UNCHANGED <<db, sess, index_disk, index_cache, req>>
             /\ llm_messages' = <<>>
       /\ TurnAccepted
          => /\ req'.user_id > 0
             /\ req'.conversation_id > 0
             /\ ~IsBlank(req'.user_message)
             /\ req'.mode \in {"open", "rag"}
             /\ \E c \in sess'.conversations :
                   c.id = req'.conversation_id /\ ~IsBlank(c.title)]_vars

\* an add_message call on an existing conversation raised ValueError
C26_Witness ==
    /\ pc = "idle"
    /\ result.op = "add_message"
    /\ result.status = "ValueError"
    /\ db.conversations # {}

\* C27: create_document on content that chunks into n >= 1 chunks commits
\* exactly n chunk rows for the new document, with chunk_index 0..n-1 in the
\* order the chunker produced them, returns n, and calls build_index once,
\* with the new document's id and those n chunks.
C27_ChunkRowsMatchChunks ==
    (DocumentBuilt /\ result.status = "ok")
    => LET cks == chunk_text(Strip(result.content), settings.CHUNK_SIZE,
                             settings.CHUNK_OVERLAP).chunks
           n == Len(cks)
           rows == CommittedChunks(result.document_id)
       IN  n >= 1
           => /\ result.chunk_count = n
              /\ Cardinality(rows) = n
              /\ {c.chunk_index : c \in rows} = 0..(n - 1)
              /\ \A c \in rows : c.text = cks[c.chunk_index + 1]
              /\ Len(result.builds) = 1
              /\ result.builds[1].document_id = result.document_id
              /\ result.builds[1].chunks = cks
              /\ \E d \in db.documents : d.id = result.document_id

\* a second document, of two chunks, was created and indexed
C27_Witness ==
    /\ DocumentBuilt
    /\ result.status = "ok"
    /\ result.chunk_count = 2
    /\ result.builds[1].status = "ok"
    /\ Cardinality(db.documents) = 2

\* the entries of a context that are not system entries
NonSystem(messages) == SelectSeq(messages, LAMBDA m : m.role # "system")

\* C28: in the context assembled for a turn the new user message is the final
\* entry and appears there only: the entries between the system entries and
\* the final one are the window over the messages the conversation had before
\* the turn, and never include the user message of the turn in progress.
C28_NewMessageOnlyLast ==
    [][TurnAccepted
       => LET prior == ConversationHistory(sess, req'.conversation_id)
          IN  NonSystem(llm_messages')
                 = Entries(HistoryWindow(prior, settings.MAX_HISTORY_MESSAGES))
                   \o <<[role |-> "user", content |-> req'.user_message]>>]_vars

\* the owner of the conversation of the turn in flight
TurnOwner == (CHOOSE c \in sess.conversations : c.id = req.conversation_id).user_id

\* C29: the document context of a turn holds chunk text only of documents that
\* the conversation's user owns: every document whose chunks were retrieved
\* into the context belongs to that user.
C29_ContextFromOwnDocuments ==
    (pc = "llm" /\ req.op \in TurnOps /\ req.context # <<>>)
    => \A i \in 1..Len(req.retrievals) :
          (req.retrievals[i].status = "ok" /\ RetrievedTexts(req.retrievals[i]) # {})
          => \E d \in sess.documents :
                d.id = req.retrievals[i].document_id /\ d.user_id = TurnOwner

\* the committed chunk row of a document at a chunk_index
ChunkRowAt(document_id, idx) ==
    {c \in CommittedChunks(document_id) : c.chunk_index = idx}

\* position j of an index is the embedding of the row with chunk_index j
PositionsAreRows(document_id, index) ==
    /\ Len(index) = Cardinality(CommittedChunks(document_id))
    /\ \A j \in 1..Len(index) :
          \E c \in ChunkRowAt(document_id, j - 1) : Embed(c.text) = index[j]

\* C30: for every document created through create_document, the blank filter
\* of build_index removed none of its chunks, position j of its index (on disk
\* and in the cache) is the embedding of its chunk row with chunk_index j, and
\* every chunk_index retrieve_top_k returns for it names one of its chunk rows,
\* at the distance of that row's text from the query.
C30_IndexPositionsAreChunkRows ==
    /\ (DocumentBuilt /\ result.builds # <<>>)
       => FilterBlank(result.builds[1].chunks) = result.builds[1].chunks
    /\ \A d \in db.documents :
          /\ d.id \in DOMAIN index_disk => PositionsAreRows(d.id, index_disk[d.id])
          /\ d.id \in DOMAIN index_cache => PositionsAreRows(d.id, index_cache[d.id])
          /\ \A q \in IndexQueries, k \in IndexKs :
                \A o \in retrieve_top_k(index_disk, index_cache, d.id, q, k) :
                   \A i \in 1..Len(o.results) :
                      \E c \in ChunkRowAt(d.id, o.results[i].idx) :
                         Distance(Embed(c.text), Embed(Strip(q))) = o.results[i].dist

====
